---------------------------- MODULE Spec2Model ----------------------------
(***************************************************************************)
(* Model of the stock trading API of src/main.py: the in-memory registry   *)
(* FICTIONAL_STOCK_DATA and the three handlers get_stocks, get_stock_price *)
(* and buy_stock, run as coroutines on a single event loop.                *)
(*                                                                         *)
(* Ticker strings are sequences of ASCII codes, so that str.upper() is     *)
(* computed and not assumed.  Prices are in cents (150.12 is 15012).       *)
(***************************************************************************)
EXTENDS Integers, Sequences, FiniteSets, Bags, TLC

VARIABLES data, pending, frames, last, sold, tally, issued, matched

vars == <<data, pending, frames, last, sold, tally, issued, matched>>

(***************************************************************************)
(* Bounds of the model.                                                    *)
(***************************************************************************)
MaxRequests == 3
MaxPending == 2
BurstSize == 20

(***************************************************************************)
(* Ticker strings.                                                         *)
(***************************************************************************)
AAPL == <<65, 65, 80, 76>>
GOOGL == <<71, 79, 79, 71, 76>>
MSFT == <<77, 83, 70, 84>>
ZZZZ == <<90, 90, 90, 90>>
aapl == <<97, 97, 112, 108>>
Aapl == <<65, 97, 112, 108>>
googl == <<103, 111, 111, 103, 108>>
zzzz == <<122, 122, 122, 122>>
zzZZ == <<122, 122, 90, 90>>

\* str.upper() on an ASCII string: a-z (97..122) map to A-Z, the rest stays.
UpperIdentity(s) == s

Upper(s) == [i \in DOMAIN s |-> IF s[i] \in 97..122 THEN s[i] - 32 ELSE s[i]]

\* FICTIONAL_STOCK_DATA as constructed at import time.
FICTIONAL_STOCK_DATA ==
    (AAPL :> [name |-> "Apple", price |-> 15012, volume |-> 10])
 @@ (GOOGL :> [name |-> "Google", price |-> 275065, volume |-> 50])
 @@ (MSFT :> [name |-> "Microsoft", price |-> 29987, volume |-> 75])

\* Insertion order of the keys of FICTIONAL_STOCK_DATA (dict iteration order).
TickerOrder == <<AAPL, GOOGL, MSFT>>

(***************************************************************************)
(* Requests the clients send.                                              *)
(***************************************************************************)
TickerInputs == {AAPL, aapl, GOOGL, zzzz}
QuantityInputs == {-5, 0, 3, 8, 10}

Requests ==
    {[op |-> "list", ticker |-> <<>>, quantity |-> 0]}
    \cup {[op |-> "price", ticker |-> t, quantity |-> 0] : t \in TickerInputs}
    \cup {[op |-> "buy", ticker |-> t, quantity |-> q] :
              t \in TickerInputs, q \in QuantityInputs}

BurstRequest == [op |-> "buy", ticker |-> AAPL, quantity |-> 1]

(***************************************************************************)
(* Responses.                                                              *)
(***************************************************************************)
NoResp == [kind |-> "none"]

TickerNotFound(ticker) ==
    [kind |-> "TickerNotFound", status_code |-> 401, ticker |-> ticker]

InsufficientShares(requested, available) ==
    [kind |-> "InsufficientShares", status_code |-> 401,
     requested |-> requested, available |-> available]

InvalidQuantity ==
    [kind |-> "InvalidQuantity", status_code |-> 401]

StockPrice(ticker, price) ==
    [kind |-> "StockPrice", ticker |-> ticker, price |-> price]

BuyStockResponse(ticker, quantity, price_per_share, total_cost, remaining_volume) ==
    [kind |-> "BuyStockResponse", ticker |-> ticker, quantity |-> quantity,
     price_per_share |-> price_per_share, total_cost |-> total_cost,
     remaining_volume |-> remaining_volume]

StockList(stocks) == [kind |-> "StockList", stocks |-> stocks]

(***************************************************************************)
(* A frame is the activation of one handler: its request, its position     *)
(* and its local variables.                                                *)
(***************************************************************************)
Entry(op) == CASE op = "buy" -> "lookup"
               [] op = "price" -> "get_stock_price"
               [] OTHER -> "get_stocks"

NewFrame(req) ==
    [op |-> req.op, ticker |-> req.ticker, quantity |-> req.quantity,
     pc |-> Entry(req.op), ticker_upper |-> <<>>, price_per_share |-> 0,
     total_cost |-> 0, new_volume |-> 0, resp |-> NoResp]

Raise(f, exc) == [f EXCEPT !.pc = "done", !.resp = exc]

Return(f, r) == [f EXCEPT !.pc = "done", !.resp = r]

(***************************************************************************)
(* get_stocks: one {ticker, name} pair per instrument, in dict order.      *)
(***************************************************************************)
get_stocksAvailableOnly(f, d) ==
    Return(f, StockList(SelectSeq(
        [i \in 1..Len(TickerOrder) |->
            [ticker |-> TickerOrder[i], name |-> d[TickerOrder[i]].name]],
        LAMBDA e : d[e.ticker].volume > 0)))

get_stocks(f, d) ==
    Return(f, StockList([i \in 1..Len(TickerOrder) |->
                 [ticker |-> TickerOrder[i], name |-> d[TickerOrder[i]].name]]))

(***************************************************************************)
(* get_stock_price.                                                        *)
(***************************************************************************)
get_stock_price(f, d) ==
    LET ticker_upper == Upper(f.ticker)
    IN  IF ticker_upper \notin DOMAIN d
        THEN Raise([f EXCEPT !.ticker_upper = ticker_upper],
                   TickerNotFound(f.ticker))
        ELSE Return([f EXCEPT !.ticker_upper = ticker_upper],
                    StockPrice(ticker_upper, d[ticker_upper].price))

(***************************************************************************)
(* buy_stock, statement by statement.  stock_info is a reference to the    *)
(* registry entry, so every read of stock_info["volume"] reads the         *)
(* registry as it is when the statement runs.                              *)
(***************************************************************************)
BuyLookupMissingAsEmpty(f, d) ==
    LET ticker_upper == Upper(f.ticker)
    IN  IF ticker_upper \notin DOMAIN d
        THEN Raise([f EXCEPT !.ticker_upper = ticker_upper],
                   InsufficientShares(f.quantity, 0))
        ELSE [f EXCEPT !.ticker_upper = ticker_upper, !.pc = "check_volume"]

BuyLookupQuantityFirst(f, d) ==
    LET ticker_upper == Upper(f.ticker)
    IN  IF f.quantity <= 0
        THEN Raise([f EXCEPT !.ticker_upper = ticker_upper], InvalidQuantity)
        ELSE IF ticker_upper \notin DOMAIN d
        THEN Raise([f EXCEPT !.ticker_upper = ticker_upper],
                   TickerNotFound(f.ticker))
        ELSE [f EXCEPT !.ticker_upper = ticker_upper, !.pc = "check_volume"]

BuyLookup(f, d) ==
    LET ticker_upper == Upper(f.ticker)
    IN  IF ticker_upper \notin DOMAIN d
        THEN Raise([f EXCEPT !.ticker_upper = ticker_upper],
                   TickerNotFound(f.ticker))
        ELSE [f EXCEPT !.ticker_upper = ticker_upper, !.pc = "check_volume"]

BuyCheckVolumeNoCheck(f, d) == [f EXCEPT !.pc = "check_quantity"]

BuyCheckVolumeOffByOne(f, d) ==
    IF f.quantity >= d[f.ticker_upper].volume
    THEN Raise(f, InsufficientShares(f.quantity, d[f.ticker_upper].volume))
    ELSE [f EXCEPT !.pc = "check_quantity"]

BuyCheckVolumeSeedAvailable(f, d) ==
    IF f.quantity > d[f.ticker_upper].volume
    THEN Raise(f, InsufficientShares(f.quantity,
                                     FICTIONAL_STOCK_DATA[f.ticker_upper].volume))
    ELSE [f EXCEPT !.pc = "check_quantity"]

BuyCheckVolumeRetry(f, d) ==
    IF f.quantity > d[f.ticker_upper].volume
    THEN [f EXCEPT !.pc = "lookup"]
    ELSE [f EXCEPT !.pc = "check_quantity"]

BuyCheckVolume(f, d) ==
    IF f.quantity > d[f.ticker_upper].volume
    THEN Raise(f, InsufficientShares(f.quantity, d[f.ticker_upper].volume))
    ELSE [f EXCEPT !.pc = "check_quantity"]

BuyCheckQuantityZeroAllowed(f, d) ==
    IF f.quantity < 0
    THEN Raise(f, InvalidQuantity)
    ELSE [f EXCEPT !.pc = "compute"]

BuyCheckQuantityNoCheck(f, d) == [f EXCEPT !.pc = "compute"]

BuyCheckQuantity(f, d) ==
    IF f.quantity <= 0
    THEN Raise(f, InvalidQuantity)
    ELSE [f EXCEPT !.pc = "compute"]

BuyComputeStale(f, d) ==
    [f EXCEPT !.price_per_share = d[f.ticker_upper].price,
              !.total_cost = d[f.ticker_upper].price * f.quantity,
              !.new_volume = FICTIONAL_STOCK_DATA[f.ticker_upper].volume - f.quantity,
              !.pc = "commit"]

BuyComputeUnitCost(f, d) ==
    [f EXCEPT !.price_per_share = d[f.ticker_upper].price,
              !.total_cost = d[f.ticker_upper].price,
              !.new_volume = d[f.ticker_upper].volume - f.quantity,
              !.pc = "commit"]

BuyCompute(f, d) ==
    [f EXCEPT !.price_per_share = d[f.ticker_upper].price,
              !.total_cost = d[f.ticker_upper].price * f.quantity,
              !.new_volume = d[f.ticker_upper].volume - f.quantity,
              !.pc = "commit"]

BuyCommitDataKeyAsTyped(f, d) ==
    (f.ticker :> [d[f.ticker_upper] EXCEPT !.volume = f.new_volume]) @@ d

BuyCommitData(f, d) ==
    [d EXCEPT ![f.ticker_upper].volume = f.new_volume]

BuyCommitReportsPrior(f, d) ==
    Return(f, BuyStockResponse(f.ticker_upper, f.quantity, f.price_per_share,
                               f.total_cost, f.new_volume + f.quantity))

BuyCommit(f, d) ==
    Return(f, BuyStockResponse(f.ticker_upper, f.quantity, f.price_per_share,
                               f.total_cost, f.new_volume))

HandlerStepWriteBeforeValidate(f, d) ==
    CASE f.pc = "get_stocks" -> [frame |-> get_stocks(f, d), data |-> d]
      [] f.pc = "get_stock_price" -> [frame |-> get_stock_price(f, d), data |-> d]
      [] f.pc = "lookup" -> [frame |-> BuyLookup(f, d), data |-> d]
      [] f.pc = "check_volume" -> [frame |-> BuyCheckVolume(f, d), data |-> d]
      [] f.pc = "check_quantity" ->
             [frame |-> BuyCheckQuantity(f, d),
              data |-> BuyCommitData(BuyCompute(f, d), d)]
      [] f.pc = "compute" -> [frame |-> BuyCompute(f, d), data |-> d]
      [] f.pc = "commit" -> [frame |-> BuyCommit(f, d), data |-> BuyCommitData(f, d)]

\* One statement of a handler: the frame and the registry after it.
HandlerStep(f, d) ==
    CASE f.pc = "get_stocks" -> [frame |-> get_stocks(f, d), data |-> d]
      [] f.pc = "get_stock_price" -> [frame |-> get_stock_price(f, d), data |-> d]
      [] f.pc = "lookup" -> [frame |-> BuyLookup(f, d), data |-> d]
      [] f.pc = "check_volume" -> [frame |-> BuyCheckVolume(f, d), data |-> d]
      [] f.pc = "check_quantity" -> [frame |-> BuyCheckQuantity(f, d), data |-> d]
      [] f.pc = "compute" -> [frame |-> BuyCompute(f, d), data |-> d]
      [] f.pc = "commit" -> [frame |-> BuyCommit(f, d), data |-> BuyCommitData(f, d)]

\* A handler run from its first statement to its response with no other
\* handler in between.
RECURSIVE RunFrame(_, _)
RunFrame(f, d) ==
    IF f.pc = "done"
    THEN [frame |-> f, data |-> d]
    ELSE LET s == HandlerStep(f, d) IN RunFrame(s.frame, s.data)

Handle(req, d) == RunFrame(NewFrame(req), d)

(***************************************************************************)
(* The event loop.  The handlers are coroutines without an await, so the   *)
(* loop starts a handler only when no other handler is in progress.        *)
(***************************************************************************)
LoopIdleThreaded == TRUE

LoopIdle == BagCardinality(frames) = 0

BuyKinds == {"BuyStockResponse", "TickerNotFound", "InvalidQuantity",
             "InsufficientShares"}

NoLast == [req |-> [op |-> "none", ticker |-> <<>>, quantity |-> 0],
           resp |-> NoResp, pre |-> FICTIONAL_STOCK_DATA]

ReqOf(f) == [op |-> f.op, ticker |-> f.ticker, quantity |-> f.quantity]

\* The requests of the end-to-end example, in the order they are answered.
Scenario == <<[op |-> "buy", ticker |-> aapl, quantity |-> 3],
              [op |-> "price", ticker |-> AAPL, quantity |-> 0],
              [op |-> "buy", ticker |-> AAPL, quantity |-> 8]>>

OffScenario == 0 - 1

\* The response resp to request req is sent: last, sold and tally record it,
\* and matched counts the answered requests while they are the Scenario's.
Respond(req, resp) ==
    /\ last' = [req |-> req, resp |-> resp, pre |-> data]
    /\ matched' = IF /\ matched # OffScenario
                     /\ matched < Len(Scenario)
                     /\ req = Scenario[matched + 1]
                  THEN matched + 1
                  ELSE OffScenario
    /\ sold' = IF resp.kind = "BuyStockResponse"
               THEN [sold EXCEPT ![resp.ticker] = @ + resp.quantity]
               ELSE sold
    /\ tally' = IF req.op = "buy"
                THEN [tally EXCEPT ![resp.kind] = @ + 1]
                ELSE tally

\* Frame f executes its next statement.
Advance(f) ==
    LET s == HandlerStep(f, data)
        g == s.frame
    IN  /\ data' = s.data
        /\ frames' = IF g.pc = "done"
                     THEN frames (-) SetToBag({f})
                     ELSE (frames (-) SetToBag({f})) (+) SetToBag({g})
        /\ IF g.pc = "done"
           THEN Respond(ReqOf(f), g.resp)
           ELSE UNCHANGED <<last, sold, tally, matched>>
        /\ UNCHANGED <<pending, issued>>

Init ==
    /\ data = FICTIONAL_STOCK_DATA
    /\ pending = EmptyBag
    /\ frames = EmptyBag
    /\ last = NoLast
    /\ sold = [t \in DOMAIN FICTIONAL_STOCK_DATA |-> 0]
    /\ tally = [k \in BuyKinds |-> 0]
    /\ issued = 0
    /\ matched = 0

\* A client sends a request.
Arrive ==
    \E req \in Requests :
        /\ issued < MaxRequests
        /\ BagCardinality(pending) < MaxPending
        /\ pending' = pending (+) SetToBag({req})
        /\ issued' = issued + 1
        /\ UNCHANGED <<data, frames, last, sold, tally, matched>>

\* The event loop starts the handler of a dispatched request.
Start ==
    /\ LoopIdle
    /\ \E req \in BagToSet(pending) :
        /\ pending' = pending (-) SetToBag({req})
        /\ frames' = frames (+) SetToBag({NewFrame(req)})
    /\ UNCHANGED <<data, last, sold, tally, issued, matched>>

GetStocks ==
    \E f \in BagToSet(frames) : f.pc = "get_stocks" /\ Advance(f)

GetStockPrice ==
    \E f \in BagToSet(frames) : f.pc = "get_stock_price" /\ Advance(f)

Lookup ==
    \E f \in BagToSet(frames) : f.pc = "lookup" /\ Advance(f)

CheckVolume ==
    \E f \in BagToSet(frames) : f.pc = "check_volume" /\ Advance(f)

CheckQuantity ==
    \E f \in BagToSet(frames) : f.pc = "check_quantity" /\ Advance(f)

Compute ==
    \E f \in BagToSet(frames) : f.pc = "compute" /\ Advance(f)

Commit ==
    \E f \in BagToSet(frames) : f.pc = "commit" /\ Advance(f)

Next ==
    \/ Arrive
    \/ Start
    \/ GetStocks
    \/ GetStockPrice
    \/ Lookup
    \/ CheckVolume
    \/ CheckQuantity
    \/ Compute
    \/ Commit

Spec == Init /\ [][Next]_vars

(***************************************************************************)
(* The same handlers with requests served one after the other: a request   *)
(* arrives and its handler runs from its first statement to its response.  *)
(***************************************************************************)
Serve ==
    \E req \in Requests :
        /\ issued < MaxRequests
        /\ LoopIdle
        /\ LET r == Handle(req, data)
           IN  /\ data' = r.data
               /\ Respond(req, r.frame.resp)
        /\ issued' = issued + 1
        /\ UNCHANGED <<pending, frames>>

NextServe == Serve

SpecServe == Init /\ [][NextServe]_vars

(***************************************************************************)
(* Invariants.                                                             *)
(***************************************************************************)
Tickers == DOMAIN FICTIONAL_STOCK_DATA

\* C1: in every reachable state the available volume of every instrument
\* is >= 0.
VolumeNonNegative == \A t \in Tickers : data[t].volume >= 0

\* A purchase that would have made the volume negative has been rejected
\* after an earlier purchase went through.
VolumeNonNegativeWitness ==
    /\ last.resp.kind = "InsufficientShares"
    /\ last.resp.requested > last.resp.available
    /\ data[AAPL].volume < FICTIONAL_STOCK_DATA[AAPL].volume

(***************************************************************************)
(* Concurrency.                                                            *)
(***************************************************************************)
\* The ticker a buy frame works on.
BuyTicker(f) == Upper(f.ticker)

\* A buy that has passed the check quantity <= volume and has not yet
\* written the decremented volume.
InCheckThenWrite(f) ==
    f.op = "buy" /\ f.pc \in {"check_quantity", "compute", "commit"}

\* Frame g executes a statement in this step.
Steps(g) == CopiesIn(g, frames') < CopiesIn(g, frames)

\* While a buy is between its check and its write, the only buy on the
\* same ticker that executes a statement is that buy itself.
CheckThenWriteAtomic ==
    \A f \in BagToSet(frames) : \A g \in BagToSet(frames) :
        (/\ InCheckThenWrite(f)
         /\ g.op = "buy"
         /\ BuyTicker(g) = BuyTicker(f)
         /\ Steps(g))
        => (g = f /\ CopiesIn(f, frames) = 1)

\* For every ticker, the initial volume minus the current volume is the
\* sum of the quantities of the receipts returned for it.
NoLostUpdate ==
    \A t \in Tickers : FICTIONAL_STOCK_DATA[t].volume - data[t].volume = sold[t]

\* C2: no lost updates and no overselling under concurrency: the check
\* quantity <= volume and the write of one buy are never separated by a
\* statement of another buy on the same ticker, and for every ticker the
\* initial volume minus the current volume equals the sum of the quantities
\* of the receipts returned for it.
NoLostUpdateNoOversell ==
    /\ [][CheckThenWriteAtomic]_vars
    /\ [](NoLostUpdate /\ VolumeNonNegative)

\* Two buys of the same ticker were dispatched together: one has returned
\* its receipt while the other was still waiting for the loop.
NoLostUpdateWitness ==
    /\ last.resp.kind = "BuyStockResponse"
    /\ \E r \in BagToSet(pending) :
           r.op = "buy" /\ Upper(r.ticker) = last.resp.ticker /\ r.quantity > 0
    /\ sold[last.resp.ticker] > last.resp.quantity

(***************************************************************************)
(* A burst of BurstSize concurrent buy("AAPL", 1) requests.                *)
(***************************************************************************)
\* A client sends one request of the burst.
ArriveBurst ==
    /\ issued < BurstSize
    /\ pending' = pending (+) SetToBag({BurstRequest})
    /\ issued' = issued + 1
    /\ UNCHANGED <<data, frames, last, sold, tally, matched>>

NextBurst ==
    \/ ArriveBurst
    \/ Start
    \/ Lookup
    \/ CheckVolume
    \/ CheckQuantity
    \/ Compute
    \/ Commit

SpecBurst == Init /\ [][NextBurst]_vars

BurstDone ==
    /\ issued = BurstSize
    /\ BagCardinality(pending) = 0
    /\ BagCardinality(frames) = 0

\* C3: with AAPL at volume 10, the burst of concurrent buy("AAPL", 1)
\* requests ends in every interleaving with exactly 10 receipts, an
\* InsufficientShares failure for every other request and AAPL volume 0;
\* at no point is the volume negative or are there more than 10 receipts.
BurstOutcome ==
    /\ data[AAPL].volume >= 0
    /\ tally["BuyStockResponse"] <= 10
    /\ BurstDone =>
          /\ tally["BuyStockResponse"] = 10
          /\ tally["InsufficientShares"] = BurstSize - 10
          /\ tally["TickerNotFound"] = 0
          /\ tally["InvalidQuantity"] = 0
          /\ data[AAPL].volume = 0

\* The whole burst has been answered.
BurstOutcomeWitness ==
    /\ BurstDone
    /\ tally["BuyStockResponse"] + tally["InsufficientShares"] = BurstSize
    /\ last.resp.kind = "InsufficientShares"

(***************************************************************************)
(* Outcomes of single requests.                                            *)
(***************************************************************************)
Errors == {"TickerNotFound", "InvalidQuantity", "InsufficientShares"}

BuyReq(t, q) == [op |-> "buy", ticker |-> t, quantity |-> q]

PriceReq(t) == [op |-> "price", ticker |-> t, quantity |-> 0]

LastBuy == last.req.op = "buy"

LastTicker == Upper(last.req.ticker)

\* C4: whenever buy(ticker, q) succeeds on a ticker whose volume just before
\* the buy is v, the stored volume just after it is exactly v - q and the
\* receipt's total cost is exactly price * q (price in cents).
Conservation ==
    (LastBuy /\ last.resp.kind = "BuyStockResponse") =>
        /\ data[last.resp.ticker].volume
               = last.pre[last.resp.ticker].volume - last.req.quantity
        /\ last.resp.total_cost
               = last.pre[last.resp.ticker].price * last.req.quantity

\* A second purchase of the same ticker has succeeded.
ConservationWitness ==
    /\ LastBuy
    /\ last.resp.kind = "BuyStockResponse"
    /\ last.pre[last.resp.ticker].volume
           < FICTIONAL_STOCK_DATA[last.resp.ticker].volume
    /\ last.resp.total_cost > last.resp.price_per_share

\* C5: every buy that fails (TickerNotFound, InvalidQuantity or
\* InsufficientShares) leaves the whole registry unchanged.
FailedBuyChangesNothing ==
    (LastBuy /\ last.resp.kind \in Errors) => data = last.pre

\* A buy has failed after an earlier purchase had changed the registry.
FailedBuyWitness ==
    /\ LastBuy
    /\ last.resp.kind \in Errors
    /\ last.pre # FICTIONAL_STOCK_DATA

UnknownTickers == {ZZZZ, zzzz, zzZZ}

AllQuantities == QuantityInputs \cup {-1, 1, 75, 76}

\* C6: for a ticker whose uppercase form is not a registry key, getPrice and
\* buy (with every quantity, in every reachable state) fail with
\* TickerNotFound; buy never reports InsufficientShares for it.
UnknownTickerNotFound ==
    /\ (last.req.op \in {"price", "buy"} /\ LastTicker \notin DOMAIN last.pre)
           => last.resp.kind = "TickerNotFound"
    /\ \A t \in UnknownTickers :
           /\ Handle(PriceReq(t), data).frame.resp.kind = "TickerNotFound"
           /\ \A q \in AllQuantities :
                  Handle(BuyReq(t, q), data).frame.resp.kind = "TickerNotFound"

\* A buy of an unknown ticker with a quantity larger than every volume has
\* been answered.
UnknownTickerWitness ==
    /\ LastBuy
    /\ last.req.ticker = zzzz
    /\ last.req.quantity > 0
    /\ last.resp.kind = "TickerNotFound"

\* The error of the first failing check in the order quantity > 0, ticker
\* exists, quantity <= volume.
QuantityFirstKind(req, d) ==
    IF req.quantity <= 0 THEN "InvalidQuantity"
    ELSE IF Upper(req.ticker) \notin DOMAIN d THEN "TickerNotFound"
    ELSE IF req.quantity > d[Upper(req.ticker)].volume THEN "InsufficientShares"
    ELSE "BuyStockResponse"

\* The error of the first failing check in the order ticker exists,
\* quantity <= volume, quantity > 0.
TickerFirstKind(req, d) ==
    IF Upper(req.ticker) \notin DOMAIN d THEN "TickerNotFound"
    ELSE IF req.quantity > d[Upper(req.ticker)].volume THEN "InsufficientShares"
    ELSE IF req.quantity <= 0 THEN "InvalidQuantity"
    ELSE "BuyStockResponse"

\* C7 as stated: buy validates quantity > 0 first, then the ticker, then
\* quantity <= volume, so a buy with a non-positive quantity fails with
\* InvalidQuantity whether or not the ticker is known.
ValidationOrderQuantityFirst ==
    LastBuy => last.resp.kind = QuantityFirstKind(last.req, last.pre)

\* C7 amended: buy validates the ticker first (TickerNotFound), then
\* quantity <= volume (InsufficientShares), then quantity > 0
\* (InvalidQuantity); a buy with a non-positive quantity fails with
\* InvalidQuantity when the ticker is known and with TickerNotFound when it
\* is not.
ValidationOrderTickerFirst ==
    /\ LastBuy => last.resp.kind = TickerFirstKind(last.req, last.pre)
    /\ (LastBuy /\ last.req.quantity <= 0) =>
           last.resp.kind = IF LastTicker \in DOMAIN last.pre
                            THEN "InvalidQuantity" ELSE "TickerNotFound"

\* A buy with a non-positive quantity of an unknown ticker has been
\* answered.
ValidationOrderWitness ==
    /\ LastBuy
    /\ last.req.quantity <= 0
    /\ LastTicker \notin DOMAIN last.pre
    /\ last.resp.kind = "TickerNotFound"

KnownTickerInputs == {AAPL, aapl, Aapl, GOOGL, googl, MSFT}

\* C8: for a known ticker, buy with quantity <= 0 fails with InvalidQuantity
\* in every reachable state, also when the ticker's volume is 0; it never
\* succeeds and never reports InsufficientShares.
NonPositiveQuantityInvalid ==
    /\ (LastBuy /\ LastTicker \in DOMAIN last.pre /\ last.req.quantity <= 0)
           => last.resp.kind = "InvalidQuantity"
    /\ \A t \in KnownTickerInputs : \A q \in {q \in AllQuantities : q <= 0} :
           Handle(BuyReq(t, q), data).frame.resp.kind = "InvalidQuantity"

\* buy with quantity 0 has been rejected for a ticker whose volume is 0.
NonPositiveQuantityWitness ==
    /\ LastBuy
    /\ LastTicker \in DOMAIN last.pre
    /\ last.req.quantity = 0
    /\ last.pre[LastTicker].volume = 0
    /\ last.resp.kind = "InvalidQuantity"

\* C9: for a known ticker, buy fails with InsufficientShares exactly when
\* the requested quantity is greater than the ticker's current volume, and
\* the error carries the requested quantity and the volume stored at the
\* moment of the check.
InsufficientExactly ==
    (LastBuy /\ LastTicker \in DOMAIN last.pre) =>
        /\ last.resp.kind = "InsufficientShares"
               <=> last.req.quantity > last.pre[LastTicker].volume
        /\ last.resp.kind = "InsufficientShares" =>
               /\ last.resp.requested = last.req.quantity
               /\ last.resp.available = last.pre[LastTicker].volume

\* A buy has been rejected for a quantity that the initial volume would
\* have covered.
InsufficientWitness ==
    /\ LastBuy
    /\ last.resp.kind = "InsufficientShares"
    /\ last.resp.available < last.resp.requested
    /\ last.resp.requested <= FICTIONAL_STOCK_DATA[LastTicker].volume

(***************************************************************************)
(* Case-insensitivity of tickers.                                          *)
(***************************************************************************)
CaseVariants == {AAPL, aapl, Aapl, GOOGL, googl, MSFT, ZZZZ, zzzz, zzZZ}

IsLetter(c) == c \in 65..90 \/ c \in 97..122

\* s and t differ only in letter case.
SameModuloCase(s, t) ==
    /\ Len(s) = Len(t)
    /\ \A i \in DOMAIN s :
           \/ s[i] = t[i]
           \/ /\ IsLetter(s[i])
              /\ IsLetter(t[i])
              /\ (s[i] - t[i] = 32 \/ t[i] - s[i] = 32)

\* What the client can tell from a response: the error kind of a
\* TickerNotFound (its message quotes the ticker as typed), else all of it.
Observable(resp) ==
    IF resp.kind = "TickerNotFound" THEN [kind |-> resp.kind] ELSE resp

Outcome(req, d) ==
    LET r == Handle(req, d)
    IN  [resp |-> Observable(r.frame.resp), data |-> r.data]

\* C10: for any two ticker strings that differ only in letter case, getPrice
\* and buy issued from the same state give the same outcome (same success
\* or error kind, same returned values with the ticker in uppercase) and
\* the same resulting registry.
CaseInsensitive ==
    /\ \A s \in CaseVariants : \A t \in CaseVariants \ {s} :
           SameModuloCase(s, t) =>
               /\ Outcome(PriceReq(s), data) = Outcome(PriceReq(t), data)
               /\ \A q \in AllQuantities :
                      Outcome(BuyReq(s, q), data) = Outcome(BuyReq(t, q), data)
    /\ last.req.op \in {"price", "buy"} =>
           \A t \in CaseVariants :
               SameModuloCase(t, last.req.ticker) =>
                   Outcome([last.req EXCEPT !.ticker = t], last.pre)
                       = [resp |-> Observable(last.resp), data |-> data]

\* A buy typed in lower case has returned a receipt with the upper-case
\* ticker, after an earlier purchase.
CaseInsensitiveWitness ==
    /\ LastBuy
    /\ last.req.ticker = aapl
    /\ last.resp.kind = "BuyStockResponse"
    /\ last.resp.ticker = AAPL
    /\ last.pre # FICTIONAL_STOCK_DATA

(***************************************************************************)
(* What the operations change.                                             *)
(***************************************************************************)
\* This step sends the receipt of a buy of ticker t.
ReceiptSent(t) ==
    /\ tally'["BuyStockResponse"] = tally["BuyStockResponse"] + 1
    /\ last'.resp.kind = "BuyStockResponse"
    /\ last'.resp.ticker = t

\* This step is a statement of a get_stocks or get_stock_price handler.
ReadOnlyStep ==
    \E f \in BagToSet(frames) : f.op \in {"list", "price"} /\ Steps(f)

OnlyBoughtVolumeChanges ==
    /\ DOMAIN data' = DOMAIN data
    /\ \A t \in DOMAIN data :
           /\ data'[t].name = data[t].name
           /\ data'[t].price = data[t].price
           /\ data'[t].volume # data[t].volume => ReceiptSent(t)
    /\ ReadOnlyStep => data' = data

\* C11: the only thing any operation changes is the volume of the ticker
\* named in a successful buy: getPrice and list change nothing, and a
\* successful buy leaves the key set, every name, every price and the volume
\* of every other ticker unchanged.
FrameCondition == [][OnlyBoughtVolumeChanges]_vars

\* A buy typed in lower case has succeeded after a buy of another ticker:
\* both volumes are changed, the third is not, names and prices are the
\* seed's.
FrameConditionWitness ==
    /\ LastBuy
    /\ last.req.ticker = aapl
    /\ last.resp.kind = "BuyStockResponse"
    /\ data[AAPL].volume < last.pre[AAPL].volume
    /\ data[GOOGL].volume = last.pre[GOOGL].volume
    /\ data[GOOGL].volume < FICTIONAL_STOCK_DATA[GOOGL].volume
    /\ data[MSFT] = FICTIONAL_STOCK_DATA[MSFT]

VolumeStep ==
    \A t \in Tickers :
        /\ data'[t].volume <= data[t].volume
        /\ data'[t].volume < data[t].volume <=> ReceiptSent(t)

\* C12: across every step of every execution each instrument's volume in
\* the next state is <= its volume in the current state, and it is strictly
\* smaller exactly for the ticker of a successful buy.
VolumeMonotone == [][VolumeStep]_vars

\* Two tickers have been bought and a buy with a negative quantity has been
\* rejected.
VolumeMonotoneWitness ==
    /\ sold[AAPL] > 0
    /\ sold[GOOGL] > 0
    /\ LastBuy
    /\ last.req.quantity < 0
    /\ last.resp.kind = "InvalidQuantity"

\* C13: the receipt of a successful buy reports as remaining volume the
\* volume stored for that ticker right after that purchase's decrement, and
\* as price per share the instrument's price, in every interleaving.
ReceiptReportsStored ==
    (LastBuy /\ last.resp.kind = "BuyStockResponse") =>
        /\ last.resp.remaining_volume = data[last.resp.ticker].volume
        /\ last.resp.price_per_share = data[last.resp.ticker].price
        /\ last.resp.price_per_share
               = FICTIONAL_STOCK_DATA[last.resp.ticker].price

\* A receipt has been returned while another buy of the same ticker was
\* dispatched and waiting.
ReceiptReportsStoredWitness ==
    /\ LastBuy
    /\ last.resp.kind = "BuyStockResponse"
    /\ last.resp.remaining_volume < last.pre[last.resp.ticker].volume
    /\ \E r \in BagToSet(pending) :
           r.op = "buy" /\ Upper(r.ticker) = last.resp.ticker

(***************************************************************************)
(* The end-to-end example.                                                 *)
(***************************************************************************)
\* C14: from the seed state with AAPL at price 150.12 and volume 10,
\* buy("aapl", 3) returns ticker "AAPL", quantity 3, price per share 150.12,
\* total cost 450.36, remaining volume 7; a following getPrice("AAPL")
\* returns 150.12; a following buy("AAPL", 8) fails with InsufficientShares
\* reporting requested 8 and available 7, and the AAPL volume is still 7.
EndToEnd ==
    /\ matched = 1 =>
           /\ last.pre = FICTIONAL_STOCK_DATA
           /\ last.resp = BuyStockResponse(AAPL, 3, 15012, 45036, 7)
           /\ data[AAPL].volume = 7
    /\ matched = 2 =>
           /\ last.resp = StockPrice(AAPL, 15012)
           /\ data[AAPL].volume = 7
    /\ matched = 3 =>
           /\ last.resp.kind = "InsufficientShares"
           /\ last.resp.requested = 8
           /\ last.resp.available = 7
           /\ data[AAPL].volume = 7

\* The three requests of the example have been answered in order.
EndToEndWitness ==
    /\ matched = 3
    /\ last.req = Scenario[3]
    /\ sold[AAPL] = 3

(***************************************************************************)
(* Listing.                                                                *)
(***************************************************************************)
Range(seq) == {seq[i] : i \in DOMAIN seq}

ListReq == [op |-> "list", ticker |-> <<>>, quantity |-> 0]

SeedListing == <<[ticker |-> AAPL, name |-> "Apple"],
                 [ticker |-> GOOGL, name |-> "Google"],
                 [ticker |-> MSFT, name |-> "Microsoft"]>>

\* C15: in every reachable state list returns exactly one (ticker, name)
\* pair for each seeded instrument, in insertion order, with no price or
\* volume; its result is the same before and after any sequence of buys,
\* also buys that bring a volume to 0.
ListingStable ==
    /\ Handle(ListReq, data).frame.resp = StockList(SeedListing)
    /\ Handle(ListReq, data).data = data
    /\ last.req.op = "list" => last.resp = StockList(SeedListing)
    /\ \A e \in Range(Handle(ListReq, data).frame.resp.stocks) :
           DOMAIN e = {"ticker", "name"}

\* list has been answered after a buy brought AAPL's volume to 0.
ListingStableWitness ==
    /\ last.req.op = "list"
    /\ last.resp.kind = "StockList"
    /\ Len(last.resp.stocks) = 3
    /\ last.pre[AAPL].volume = 0

(***************************************************************************)
(* Termination.  The event loop runs every ready task and the interpreter  *)
(* executes the next statement of the running handler: weak fairness on    *)
(* Start and on the handlers' statements.  Clients need not send anything. *)
(***************************************************************************)
LiveRequests ==
    {ListReq,
     [op |-> "price", ticker |-> aapl, quantity |-> 0],
     [op |-> "price", ticker |-> zzzz, quantity |-> 0],
     [op |-> "buy", ticker |-> aapl, quantity |-> 8],
     [op |-> "buy", ticker |-> AAPL, quantity |-> 0],
     [op |-> "buy", ticker |-> zzzz, quantity |-> 3]}

ArriveLive ==
    \E req \in LiveRequests :
        /\ issued < MaxRequests
        /\ BagCardinality(pending) < MaxPending
        /\ pending' = pending (+) SetToBag({req})
        /\ issued' = issued + 1
        /\ UNCHANGED <<data, frames, last, sold, tally, matched>>

Statement ==
    \/ GetStocks
    \/ GetStockPrice
    \/ Lookup
    \/ CheckVolume
    \/ CheckQuantity
    \/ Compute
    \/ Commit

NextLive ==
    \/ ArriveLive
    \/ Start
    \/ GetStocks
    \/ GetStockPrice
    \/ Lookup
    \/ CheckVolume
    \/ CheckQuantity
    \/ Compute
    \/ Commit

SpecLive ==
    /\ Init
    /\ [][NextLive]_vars
    /\ WF_vars(Start)
    /\ WF_vars(Statement)

\* The copies of request r that are dispatched and not yet answered.
InFlight(r) ==
    LET fs == {f \in BagToSet(frames) : ReqOf(f) = r}
    IN  CopiesIn(r, pending) + BagCardinality([f \in fs |-> frames[f]])

LastKnown == LastTicker \in DOMAIN last.pre

SoldOutBoundary ==
    /\ (LastBuy /\ LastKnown /\ last.req.quantity > 0
            /\ last.req.quantity = last.pre[LastTicker].volume)
           => /\ last.resp.kind = "BuyStockResponse"
              /\ data[LastTicker].volume = 0
    /\ (LastBuy /\ LastKnown /\ last.req.quantity > 0
            /\ last.pre[LastTicker].volume = 0)
           => last.resp.kind = "InsufficientShares"
    /\ (last.req.op = "price" /\ LastKnown /\ last.pre[LastTicker].volume = 0)
           => last.resp = StockPrice(LastTicker,
                                     FICTIONAL_STOCK_DATA[LastTicker].price)

StaysSoldOut ==
    \A t \in Tickers : data[t].volume = 0 => data'[t].volume = 0

\* C17: a buy whose quantity equals the ticker's current positive volume
\* succeeds and leaves volume 0; once a ticker's volume is 0 it stays 0
\* forever, every later buy of it with a positive quantity fails with
\* InsufficientShares, and getPrice for it still succeeds.
SoldOut == [](SoldOutBoundary) /\ [][StaysSoldOut]_vars

\* A buy with a positive quantity has been rejected for a ticker that an
\* earlier buy of its whole volume had sold out.
SoldOutWitness ==
    /\ LastBuy
    /\ last.resp.kind = "InsufficientShares"
    /\ last.resp.available = 0
    /\ last.req.quantity > 0
    /\ sold[LastTicker] = FICTIONAL_STOCK_DATA[LastTicker].volume

=============================================================================
